---- MODULE Spec2Model ----
(***************************************************************************)
(* ProductStore (challenge-13, SQLite through database/sql): the products  *)
(* table, the five single-row operations and the transactional             *)
(* BatchUpdateInventory, one statement per step.                           *)
(*                                                                         *)
(* A table row is the 5-tuple <<id, name, price, quantity, category>> in   *)
(* the column order of the CREATE TABLE statement; a Product is the Go     *)
(* struct, a record.  A Go error is the sequence of the messages of its    *)
(* chain, outermost first; the nil error is the empty sequence.            *)
(***************************************************************************)
EXTENDS Integers, Sequences, FiniteSets

\* Largest rowid the model lets the table assign.
MaxSeq == 2

\* New quantities callers pass to BatchUpdateInventory.
Quantities == {3, 7}
Categories == {"tools", "toys"}
IDs == 1..MaxSeq

\* (Name, Price, Quantity, Category) values callers pass to Create and Update.
Inputs == { <<"Widget", 10, 3, "tools">>, <<"Gadget", 20, 7, "toys">> }

\* Longest text given to CountWordFrequency, and the runes it is made of.
MaxLen == 3
Runes == {"a", "B", "1", " ", ",", "-"}

VARIABLES
    rows,     \* the committed content of the products table
    seq,      \* sqlite_sequence: the largest rowid ever assigned (AUTOINCREMENT)
    pc,       \* position of the running BatchUpdateInventory call, "idle" when none
    tx,       \* the call's transaction: its status and its uncommitted view
    loc,      \* the call's locals: keys not yet ranged over, id, err, failing stage
    ret,      \* the last call: operation, argument, returned error, returned value
    pre,      \* the table as it was when the last call started
    trace,    \* the statements the last call issued, with their outcomes
    deleted,  \* the ids removed by a successful DeleteProduct so far
    pool,     \* the handle's limit of open connections, 0 for no limit
    obs       \* the last read another caller made while a call was in progress

vars == <<rows, seq, pc, tx, loc, ret, pre, trace, deleted, pool, obs>>

-----------------------------------------------------------------------------
(* Errors *)

Nil == <<>>

ErrNoRows == <<"sql: no rows in result set">>

\* A fault of the storage engine at the named statement.
ErrStorage(stmt) == <<"storage fault: " \o stmt>>

\* fmt.Errorf(msg + ": %w", err).  With a nil operand %w wraps nothing and the
\* result is a plain non-nil error whose text ends in "%!w(<nil>)".
Errorf(msg, err) ==
    IF err = Nil THEN <<msg \o ": %!w(<nil>)">> ELSE <<msg>> \o err

\* errors.Is(err, target) for a target that is a one-message error.
Is(err, target) == \E i \in DOMAIN err : <<err[i]>> = target

-----------------------------------------------------------------------------
(* Rows and products *)

NoProduct == [ID |-> 0, Name |-> "", Price |-> 0, Quantity |-> 0, Category |-> ""]

RowIds(db) == { r[1] : r \in db }

\* Name and Category scanned from each other's column.
ScanSwapped(r) ==
    [ID |-> r[1], Name |-> r[5], Price |-> r[3], Quantity |-> r[4], Category |-> r[2]]

\* rows.Scan(&p.ID, &p.Name, &p.Price, &p.Quantity, &p.Category)
Scan(r) ==
    [ID |-> r[1], Name |-> r[2], Price |-> r[3], Quantity |-> r[4], Category |-> r[5]]

\* SELECT * FROM products WHERE id = ?
QueryRow(db, id) == { r \in db : r[1] = id }

Max(S) == CHOOSE m \in S : \A x \in S : x <= m

\* The rowid an INTEGER PRIMARY KEY AUTOINCREMENT column gives the next row:
\* one more than the largest rowid the table ever held.
NextRowid(db, s) == Max({s} \cup RowIds(db)) + 1

\* An insert that also stores the id the caller supplied.
InsertRowWithId(db, s, product) ==
    db \cup { <<IF product.ID # 0 THEN product.ID ELSE NextRowid(db, s),
                product.Name, product.Price, product.Quantity, product.Category>> }

\* INSERT INTO products (name, price, quantity, category) VALUES (?, ?, ?, ?)
InsertRow(db, s, product) ==
    db \cup { <<NextRowid(db, s), product.Name, product.Price,
                product.Quantity, product.Category>> }

\* The same statement without its WHERE clause.
UpdateRowNoWhere(db, product) ==
    { <<r[1], product.Name, product.Price, product.Quantity, product.Category>> :
        r \in db }

\* UPDATE products SET name = ?, price = ?, quantity = ?, category = ? WHERE id = ?
UpdateRow(db, product) ==
    { IF r[1] = product.ID
        THEN <<r[1], product.Name, product.Price, product.Quantity, product.Category>>
        ELSE r : r \in db }

\* DELETE FROM products WHERE id = ?
DeleteRow(db, id) == { r \in db : r[1] # id }

\* The two bound arguments in the wrong order.
UpdateQuantitySwapped(db, id, quantity) ==
    { IF r[1] = quantity THEN <<r[1], r[2], r[3], id, r[5]>> ELSE r : r \in db }

\* The same statement without its WHERE clause.
UpdateQuantityNoWhere(db, id, quantity) ==
    { <<r[1], r[2], r[3], quantity, r[5]>> : r \in db }

\* The same statement setting the price column.
UpdateQuantitySetsPrice(db, id, quantity) ==
    { IF r[1] = id THEN <<r[1], r[2], quantity, r[4], r[5]>> ELSE r : r \in db }

\* UPDATE products SET quantity = ? WHERE id = ?
UpdateQuantity(db, id, quantity) ==
    { IF r[1] = id THEN <<r[1], r[2], r[3], quantity, r[5]>> ELSE r : r \in db }

\* The rows of a result set in rowid order.
RECURSIVE InRowidOrder(_)
InRowidOrder(S) ==
    IF S = {} THEN <<>>
    ELSE LET r == CHOOSE x \in S : \A y \in S : x[1] <= y[1]
         IN  <<r>> \o InRowidOrder(S \ {r})

\* The query without its category filter.
QueryUnfiltered(db, category) == InRowidOrder(db)

\* SELECT * FROM products [WHERE category = ?]
Query(db, category) ==
    InRowidOrder(IF category # "" THEN { r \in db : r[5] = category } ELSE db)

Stmt(s, i, o) == [stmt |-> s, id |-> i, res |-> o]

-----------------------------------------------------------------------------
(* The operations as functions of the table and of the faults met *)

\* A GetProduct that takes "no rows" for success and returns the zero Product.
GetProductIgnoresNoRows(db, id, fault) ==
    LET r == QueryRow(db, id)
    IN  IF fault THEN [p |-> NoProduct, err |-> Errorf("get product", ErrStorage("select"))]
        ELSE IF r = {} THEN [p |-> NoProduct, err |-> Nil]
        ELSE [p |-> Scan(CHOOSE x \in r : TRUE), err |-> Nil]

\* GetProduct: the product and the error it returns.
GetProduct(db, id, fault) ==
    LET r == QueryRow(db, id)
    IN  IF fault THEN [p |-> NoProduct, err |-> Errorf("get product", ErrStorage("select"))]
        ELSE IF r = {} THEN [p |-> NoProduct, err |-> Errorf("get product", ErrNoRows)]
        ELSE [p |-> Scan(CHOOSE x \in r : TRUE), err |-> Nil]

GetStmt(db, id, fault) ==
    Stmt("SELECT", id, IF fault THEN "fault"
                       ELSE IF QueryRow(db, id) = {} THEN "norows" ELSE "ok")

\* ListProducts: the slice and the error it returns.  fault is "none", "query",
\* "scan" (rows.Scan fails on row k) or "next" (rows.Next fails fetching row k).
ListProducts(db, category, fault, k) ==
    LET rs == Query(db, category)
    IN  IF fault = "query"
          THEN [out |-> <<>>, err |-> Errorf("list products", ErrStorage("query"))]
        ELSE IF fault = "scan"
          THEN [out |-> <<>>, err |-> Errorf("list products", ErrStorage("scan"))]
        ELSE IF fault = "next"
          THEN [out |-> [i \in 1..(k - 1) |-> Scan(rs[i])], err |-> Nil]
        ELSE [out |-> [i \in 1..Len(rs) |-> Scan(rs[i])], err |-> Nil]

-----------------------------------------------------------------------------
(* State *)

NoTx == [status |-> "none", dirty |-> FALSE, view |-> {}]
NoLoc == [todo |-> {}, id |-> 0, err |-> Nil, stage |-> ""]
NoValue == <<>>
NoObs == [op |-> "", arg |-> NoValue, err |-> Nil, out |-> NoValue]

Init ==
    /\ rows = {}
    /\ seq = 0
    /\ pc = "idle"
    /\ tx = NoTx
    /\ loc = NoLoc
    /\ ret = [op |-> "NewProductStore", arg |-> NoValue, err |-> Nil, out |-> NoValue]
    /\ pre = {}
    /\ trace = <<>>
    /\ deleted = {}
    /\ pool = 0
    /\ obs = NoObs

\* The products callers pass: ID unset (0) or set to some id.
ProductArgs ==
    { [ID |-> i, Name |-> x[1], Price |-> x[2], Quantity |-> x[3], Category |-> x[4]] :
        i \in 0..MaxSeq, x \in Inputs }

\* CreateProduct(product); fault is "none", "exec" or "lastid".
CreateProduct(product, fault) ==
    /\ pc = "idle"
    /\ seq < MaxSeq
    /\ pre' = rows
    /\ IF fault = "exec"
         THEN /\ UNCHANGED <<rows, seq>>
              /\ trace' = <<Stmt("INSERT", 0, "fault")>>
              /\ ret' = [op |-> "CreateProduct", arg |-> product,
                         err |-> Errorf("insert product", ErrStorage("insert")),
                         out |-> product]
         ELSE /\ rows' = InsertRow(rows, seq, product)
              /\ seq' = NextRowid(rows, seq)
              /\ trace' = <<Stmt("INSERT", NextRowid(rows, seq), "ok")>>
              /\ IF fault = "lastid"
                   THEN ret' = [op |-> "CreateProduct", arg |-> product,
                                err |-> Errorf("get product id", ErrStorage("lastid")),
                                out |-> [product EXCEPT !.ID = 0]]
                   ELSE ret' = [op |-> "CreateProduct", arg |-> product, err |-> Nil,
                                out |-> [product EXCEPT !.ID = NextRowid(rows, seq)]]
    /\ UNCHANGED <<pc, tx, loc, deleted, pool, obs>>

\* The call GetProduct(id).
DoGetProduct(id, fault) ==
    /\ pc = "idle"
    /\ pre' = rows
    /\ trace' = <<GetStmt(rows, id, fault)>>
    /\ ret' = [op |-> "GetProduct", arg |-> id,
               err |-> GetProduct(rows, id, fault).err,
               out |-> GetProduct(rows, id, fault).p]
    /\ UNCHANGED <<rows, seq, pc, tx, loc, deleted, pool, obs>>

\* UpdateProduct(product); fault is "none", "get" or "exec".
UpdateProduct(product, fault) ==
    LET g == GetProduct(rows, product.ID, fault = "get")
        sel == GetStmt(rows, product.ID, fault = "get")
    IN  /\ pc = "idle"
        /\ pre' = rows
        /\ IF g.err # Nil
             THEN /\ UNCHANGED rows
                  /\ trace' = <<sel>>
                  /\ ret' = [op |-> "UpdateProduct", arg |-> product,
                             err |-> Errorf("get product", g.err), out |-> NoValue]
             ELSE IF fault = "exec"
             THEN /\ UNCHANGED rows
                  /\ trace' = <<sel, Stmt("UPDATE", product.ID, "fault")>>
                  /\ ret' = [op |-> "UpdateProduct", arg |-> product,
                             err |-> Errorf("update product", ErrStorage("update")),
                             out |-> NoValue]
             ELSE /\ rows' = UpdateRow(rows, product)
                  /\ trace' = <<sel, Stmt("UPDATE", product.ID, "ok")>>
                  /\ ret' = [op |-> "UpdateProduct", arg |-> product, err |-> Nil,
                             out |-> NoValue]
        /\ UNCHANGED <<seq, pc, tx, loc, deleted, pool, obs>>

\* DeleteProduct(id); fault is "none", "get" or "exec".
DeleteProduct(id, fault) ==
    LET g == GetProduct(rows, id, fault = "get")
        sel == GetStmt(rows, id, fault = "get")
    IN  /\ pc = "idle"
        /\ pre' = rows
        /\ IF g.err # Nil
             THEN /\ UNCHANGED <<rows, deleted>>
                  /\ trace' = <<sel>>
                  /\ ret' = [op |-> "DeleteProduct", arg |-> id,
                             err |-> Errorf("get product", g.err), out |-> NoValue]
             ELSE IF fault = "exec"
             THEN /\ UNCHANGED <<rows, deleted>>
                  /\ trace' = <<sel, Stmt("DELETE", id, "fault")>>
                  /\ ret' = [op |-> "DeleteProduct", arg |-> id,
                             err |-> Errorf("delete product", ErrStorage("delete")),
                             out |-> NoValue]
             ELSE /\ rows' = DeleteRow(rows, id)
                  /\ deleted' = deleted \cup {id}
                  /\ trace' = <<sel, Stmt("DELETE", id, "ok")>>
                  /\ ret' = [op |-> "DeleteProduct", arg |-> id, err |-> Nil,
                             out |-> NoValue]
        /\ UNCHANGED <<seq, pc, tx, loc, pool, obs>>

\* The call ListProducts(category); a "scan" or "next" fault strikes at row k.
DoListProducts(category, fault, k) ==
    /\ pc = "idle"
    /\ fault = "scan" => k <= Len(Query(rows, category))
    /\ fault \in {"none", "query"} => k = 1
    /\ pre' = rows
    /\ trace' = IF fault = "query" THEN <<Stmt("SELECT", 0, "fault")>>
                ELSE IF fault = "scan"
                  THEN <<Stmt("SELECT", 0, "ok"), Stmt("SCAN", k, "fault")>>
                ELSE IF fault = "next"
                  THEN <<Stmt("SELECT", 0, "ok"), Stmt("NEXT", k, "fault")>>
                ELSE <<Stmt("SELECT", 0, "ok")>>
    /\ ret' = [op |-> "ListProducts", arg |-> category,
               err |-> ListProducts(rows, category, fault, k).err,
               out |-> ListProducts(rows, category, fault, k).out]
    /\ UNCHANGED <<rows, seq, pc, tx, loc, deleted, pool, obs>>

\* Connections of the handle held open: the transaction keeps one until it
\* is committed or rolled back.
InUse == IF tx.status = "open" THEN 1 ELSE 0

\* A statement on the shared handle ps.db gets a connection: always when the
\* handle has no limit, else only while fewer than the limit are held.
ConnAvailable == pool = 0 \/ InUse < pool

\* The update mappings callers pass: any set of ids, each with a new quantity.
BatchArgs == UNION { [S -> Quantities] : S \in SUBSET IDs }

\* tx, err := ps.db.Begin()
BatchBegin(updates, fault) ==
    /\ pc = "idle"
    /\ pre' = rows
    /\ IF fault
         THEN /\ trace' = <<Stmt("BEGIN", 0, "fault")>>
              /\ ret' = [op |-> "BatchUpdateInventory", arg |-> updates,
                         err |-> Errorf("begin tx", ErrStorage("begin")),
                         out |-> NoValue]
              /\ UNCHANGED <<pc, tx, loc>>
         ELSE /\ trace' = <<Stmt("BEGIN", 0, "ok")>>
              /\ ret' = [op |-> "BatchUpdateInventory", arg |-> updates,
                         err |-> Nil, out |-> NoValue]
              /\ pc' = "range"
              /\ tx' = [status |-> "open", dirty |-> FALSE, view |-> {}]
              /\ loc' = [NoLoc EXCEPT !.todo = DOMAIN updates]
    /\ UNCHANGED <<rows, seq, deleted, pool, obs>>

\* The existence check returning at once when it fails, without a rollback.
BatchGetNoRollback(id, fault) ==
    LET g == GetProduct(rows, id, fault)
    IN  /\ pc = "range"
        /\ id \in loc.todo
        /\ ConnAvailable
        /\ trace' = Append(trace, GetStmt(rows, id, fault))
        /\ IF g.err # Nil
             THEN /\ pc' = "idle"
                  /\ ret' = [ret EXCEPT !.err = Errorf("get products", g.err)]
                  /\ tx' = NoTx
                  /\ loc' = NoLoc
             ELSE /\ pc' = "exec"
                  /\ loc' = [loc EXCEPT !.id = id, !.err = Nil]
                  /\ UNCHANGED <<tx, ret>>
        /\ UNCHANGED <<rows, seq, pre, deleted, pool, obs>>

\* The next pair of the range loop, in any order, and its existence check
\* ps.GetProduct(id), made on the shared handle: it reads the committed table.
BatchGet(id, fault) ==
    LET g == GetProduct(rows, id, fault)
    IN  /\ pc = "range"
        /\ id \in loc.todo
        /\ ConnAvailable
        /\ trace' = Append(trace, GetStmt(rows, id, fault))
        /\ IF g.err # Nil
             THEN /\ pc' = "rollback"
                  /\ loc' = [loc EXCEPT !.id = id, !.err = g.err,
                                        !.stage = "get products"]
             ELSE /\ pc' = "exec"
                  /\ loc' = [loc EXCEPT !.id = id, !.err = Nil]
        /\ UNCHANGED <<rows, seq, tx, ret, pre, deleted, pool, obs>>

\* The update issued on the shared handle instead of on the transaction.
BatchExecOnHandle(fault) ==
    /\ pc = "exec"
    /\ IF fault
         THEN /\ trace' = Append(trace, Stmt("UPDATE", loc.id, "fault"))
              /\ pc' = "rollback"
              /\ loc' = [loc EXCEPT !.err = ErrStorage("update"),
                                    !.stage = "update products"]
              /\ UNCHANGED rows
         ELSE /\ trace' = Append(trace, Stmt("UPDATE", loc.id, "ok"))
              /\ pc' = "range"
              /\ rows' = UpdateQuantity(rows, loc.id, ret.arg[loc.id])
              /\ loc' = [loc EXCEPT !.todo = loc.todo \ {loc.id}]
    /\ UNCHANGED <<seq, tx, ret, pre, deleted, pool, obs>>

\* The table a statement of the transaction works on: its own uncommitted
\* view once it has written, the committed table before.
TxView == IF tx.dirty THEN tx.view ELSE rows

\* tx.Exec("UPDATE products SET quantity = ? WHERE id = ?", quantity, id)
BatchExec(fault) ==
    /\ pc = "exec"
    /\ IF fault
         THEN /\ trace' = Append(trace, Stmt("UPDATE", loc.id, "fault"))
              /\ pc' = "rollback"
              /\ loc' = [loc EXCEPT !.err = ErrStorage("update"),
                                    !.stage = "update products"]
              /\ UNCHANGED tx
         ELSE /\ trace' = Append(trace, Stmt("UPDATE", loc.id, "ok"))
              /\ pc' = "range"
              /\ tx' = [tx EXCEPT !.dirty = TRUE,
                                  !.view = UpdateQuantity(TxView, loc.id, ret.arg[loc.id])]
              /\ loc' = [loc EXCEPT !.todo = loc.todo \ {loc.id}]
    /\ UNCHANGED <<rows, seq, ret, pre, deleted, pool, obs>>

\* The error the failure branches return: err is assigned tx.Rollback()'s
\* result, and that same variable is then wrapped under the failing stage.
RollbackReturn(stage, err) ==
    IF err # Nil THEN Errorf("rollback", err) ELSE Errorf(stage, err)

\* A rollback that keeps the transaction's writes.
RolledBackKeepsWrites(db, t) == IF t.dirty THEN t.view ELSE db

\* What tx.Rollback() leaves in the table: the uncommitted view is dropped.
RolledBack(db, t) == db

\* if err = tx.Rollback(); err != nil { return rollback error }; return stage error
BatchRollback(fault) ==
    LET err == IF fault THEN ErrStorage("rollback") ELSE Nil
    IN  /\ pc = "rollback"
        /\ trace' = Append(trace, Stmt("ROLLBACK", 0, IF fault THEN "fault" ELSE "ok"))
        /\ ret' = [ret EXCEPT !.err = RollbackReturn(loc.stage, err)]
        /\ rows' = RolledBack(rows, tx)
        /\ pc' = "idle"
        /\ tx' = NoTx
        /\ loc' = NoLoc
        /\ obs' = NoObs
        /\ UNCHANGED <<seq, pre, deleted, pool>>

\* What tx.Commit() leaves in the table.
Committed(db, t) == IF t.dirty THEN t.view ELSE db

\* A commit reached before the range loop is over.
BatchCommitEarly(fault) ==
    /\ pc = "range"
    /\ IF fault
         THEN /\ trace' = Append(trace, Stmt("COMMIT", 0, "fault"))
              /\ ret' = [ret EXCEPT !.err = Errorf("commit", ErrStorage("commit"))]
              /\ UNCHANGED rows
         ELSE /\ trace' = Append(trace, Stmt("COMMIT", 0, "ok"))
              /\ ret' = [ret EXCEPT !.err = Nil]
              /\ rows' = Committed(rows, tx)
    /\ pc' = "idle"
    /\ tx' = NoTx
    /\ loc' = NoLoc
    /\ obs' = NoObs
    /\ UNCHANGED <<seq, pre, deleted, pool>>

\* The range loop is over: tx.Commit()
BatchCommit(fault) ==
    /\ pc = "range"
    /\ loc.todo = {}
    /\ IF fault
         THEN /\ trace' = Append(trace, Stmt("COMMIT", 0, "fault"))
              /\ ret' = [ret EXCEPT !.err = Errorf("commit", ErrStorage("commit"))]
              /\ UNCHANGED rows
         ELSE /\ trace' = Append(trace, Stmt("COMMIT", 0, "ok"))
              /\ ret' = [ret EXCEPT !.err = Nil]
              /\ rows' = Committed(rows, tx)
    /\ pc' = "idle"
    /\ tx' = NoTx
    /\ loc' = NoLoc
    /\ obs' = NoObs
    /\ UNCHANGED <<seq, pre, deleted, pool>>

Next ==
    \/ \E product \in ProductArgs, fault \in {"none", "exec", "lastid"} :
          product.ID <= 1 /\ CreateProduct(product, fault)
    \/ \E id \in IDs, fault \in BOOLEAN : DoGetProduct(id, fault)
    \/ \E product \in ProductArgs, fault \in {"none", "get", "exec"} :
          UpdateProduct(product, fault)
    \/ \E id \in IDs, fault \in {"none", "get", "exec"} :
          DeleteProduct(id, fault)
    \/ \E category \in Categories \cup {""},
          fault \in {"none", "query", "scan", "next"} :
          \E k \in 1..(Len(Query(rows, category)) + 1) :
             DoListProducts(category, fault, k)
    \/ \E updates \in BatchArgs, fault \in BOOLEAN : BatchBegin(updates, fault)
    \/ \E id \in IDs, fault \in BOOLEAN : BatchGet(id, fault)
    \/ \E fault \in BOOLEAN : BatchExec(fault)
    \/ \E fault \in BOOLEAN : BatchRollback(fault)
    \/ \E fault \in BOOLEAN : BatchCommit(fault)

Spec == Init /\ [][Next]_vars

-----------------------------------------------------------------------------
(* Other callers on the same handle while a call is in progress *)

\* Another caller's GetProduct(id).
OtherGet(id) ==
    /\ pc # "idle"
    /\ ConnAvailable
    /\ obs' = [op |-> "GetProduct", arg |-> id,
               err |-> GetProduct(rows, id, FALSE).err,
               out |-> GetProduct(rows, id, FALSE).p]
    /\ UNCHANGED <<rows, seq, pc, tx, loc, ret, pre, trace, deleted, pool>>

\* Another caller's ListProducts(category).
OtherList(category) ==
    /\ pc # "idle"
    /\ ConnAvailable
    /\ obs' = [op |-> "ListProducts", arg |-> category,
               err |-> ListProducts(rows, category, "none", 1).err,
               out |-> ListProducts(rows, category, "none", 1).out]
    /\ UNCHANGED <<rows, seq, pc, tx, loc, ret, pre, trace, deleted, pool>>

\* Another caller's successful DeleteProduct(id), at most one while a call is
\* in progress.  Once the transaction has written it holds the database's
\* write lock and no other write gets through.
OtherDelete(id) ==
    /\ pc # "idle"
    /\ ConnAvailable
    /\ ~tx.dirty
    /\ GetProduct(rows, id, FALSE).err = Nil
    /\ RowIds(rows) = RowIds(pre)
    /\ rows' = DeleteRow(rows, id)
    /\ deleted' = deleted \cup {id}
    /\ UNCHANGED <<seq, pc, tx, loc, ret, pre, trace, pool, obs>>

\* UpdateProduct up to its existence check: _, err := ps.GetProduct(product.ID)
UpdateCheck(product, fault) ==
    LET g == GetProduct(rows, product.ID, fault)
    IN  /\ pc = "idle"
        /\ pre' = rows
        /\ trace' = <<GetStmt(rows, product.ID, fault)>>
        /\ IF g.err # Nil
             THEN /\ ret' = [op |-> "UpdateProduct", arg |-> product,
                             err |-> Errorf("get product", g.err), out |-> NoValue]
                  /\ UNCHANGED pc
             ELSE /\ ret' = [op |-> "UpdateProduct", arg |-> product, err |-> Nil,
                             out |-> NoValue]
                  /\ pc' = "update"
        /\ UNCHANGED <<rows, seq, tx, loc, deleted, pool, obs>>

\* UpdateProduct from its UPDATE statement on: ps.db.Exec("UPDATE ...")
UpdateExec(fault) ==
    /\ pc = "update"
    /\ IF fault
         THEN /\ UNCHANGED rows
              /\ trace' = Append(trace, Stmt("UPDATE", ret.arg.ID, "fault"))
              /\ ret' = [ret EXCEPT
                           !.err = Errorf("update product", ErrStorage("update"))]
         ELSE /\ rows' = UpdateRow(rows, ret.arg)
              /\ trace' = Append(trace, Stmt("UPDATE", ret.arg.ID, "ok"))
              /\ ret' = [ret EXCEPT !.err = Nil]
    /\ pc' = "idle"
    /\ obs' = NoObs
    /\ UNCHANGED <<seq, tx, loc, pre, deleted, pool>>

\* The stores the sequential operations leave: the ids 1..seq were assigned,
\* each is deleted or holds values some caller passed.
StoredRows(s) ==
    { <<i, x[1], x[2], q, x[4]>> : i \in 1..s, x \in Inputs, q \in Quantities }

Stores(s) ==
    { db \in SUBSET StoredRows(s) : \A r1, r2 \in db : r1[1] = r2[1] => r1 = r2 }

\* Some store, no call in progress.
ConcInit ==
    /\ seq \in 0..MaxSeq
    /\ rows \in Stores(seq)
    /\ deleted = (1..seq) \ RowIds(rows)
    /\ pc = "idle"
    /\ tx = NoTx
    /\ loc = NoLoc
    /\ ret = [op |-> "NewProductStore", arg |-> NoValue, err |-> Nil, out |-> NoValue]
    /\ pre = rows
    /\ trace = <<>>
    /\ pool = 0
    /\ obs = NoObs

ConcNext ==
    \/ \E updates \in BatchArgs : BatchBegin(updates, FALSE)
    \/ \E id \in IDs : BatchGet(id, FALSE)
    \/ \E fault \in BOOLEAN : BatchExec(fault)
    \/ \E fault \in BOOLEAN : BatchRollback(fault)
    \/ \E fault \in BOOLEAN : BatchCommit(fault)
    \/ \E product \in ProductArgs : UpdateCheck(product, FALSE)
    \/ \E fault \in BOOLEAN : UpdateExec(fault)
    \/ \E id \in IDs : OtherGet(id)
    \/ OtherList("")
    \/ \E id \in IDs : OtherDelete(id)

\* A BatchUpdateInventory or UpdateProduct call interleaved, statement by
\* statement, with the calls of other callers.  Storage faults strike the
\* statements that write; the fault cases of the reads are those of Spec.
SpecConc == ConcInit /\ [][ConcNext]_vars

-----------------------------------------------------------------------------
(* A handle with a limit of open connections *)

\* Largest limit of open connections tried.
MaxPool == 2

\* The store on a handle limited with db.SetMaxOpenConns, or not limited.
PoolInit ==
    /\ rows = {}
    /\ seq = 0
    /\ pc = "idle"
    /\ tx = NoTx
    /\ loc = NoLoc
    /\ ret = [op |-> "NewProductStore", arg |-> NoValue, err |-> Nil, out |-> NoValue]
    /\ pre = {}
    /\ trace = <<>>
    /\ deleted = {}
    /\ pool \in 0..MaxPool
    /\ obs = NoObs

\* The next statement of the BatchUpdateInventory call in progress.
BatchStep ==
    \/ \E id \in IDs, fault \in BOOLEAN : BatchGet(id, fault)
    \/ \E fault \in BOOLEAN : BatchExec(fault)
    \/ \E fault \in BOOLEAN : BatchRollback(fault)
    \/ \E fault \in BOOLEAN : BatchCommit(fault)

\* The call in progress keeps running as long as it can take a step.
SpecPool == PoolInit /\ [][Next]_vars /\ WF_vars(BatchStep)

-----------------------------------------------------------------------------
(* CountWordFrequency (challenge 6): a text is a sequence of runes *)

IsLetter(r) == r \in {"a", "b", "B"}
IsDigit(r) == r \in {"1"}
IsSpace(r) == r \in {" "}
ToLower(r) == IF r = "B" THEN "b" ELSE r

\* m[w]++ on a Go map
Incr(m, w) ==
    [x \in DOMAIN m \cup {w} |->
        IF x = w THEN (IF w \in DOMAIN m THEN m[w] ELSE 0) + 1 ELSE m[x]]

\* One iteration of "for _, r := range text" on the builder b and the map m.
WordStep(st, r) ==
    IF IsLetter(r) \/ IsDigit(r)
      THEN [b |-> st.b \o ToLower(r), m |-> st.m]
    ELSE IF (IsSpace(r) \/ r = "-") /\ st.b # ""
      THEN [b |-> "", m |-> Incr(st.m, st.b)]
    ELSE st

RECURSIVE WordLoop(_, _)
WordLoop(st, text) ==
    IF text = <<>> THEN st ELSE WordLoop(WordStep(st, Head(text)), Tail(text))

\* CountWordFrequency(text): the map it returns.
CountWordFrequency(text) ==
    LET st == WordLoop([b |-> "", m |-> [x \in {} |-> 0]], text)
    IN  IF st.b # "" THEN Incr(st.m, st.b) ELSE st.m

Texts == UNION { [1..n -> Runes] : n \in 0..MaxLen }

\* A text waits to be counted; the store is not involved.
WordsInit ==
    /\ rows = {}
    /\ seq = 0
    /\ pc = "idle"
    /\ tx = NoTx
    /\ loc = NoLoc
    /\ \E text \in Texts :
          ret = [op |-> "text", arg |-> text, err |-> Nil, out |-> NoValue]
    /\ pre = {}
    /\ trace = <<>>
    /\ deleted = {}
    /\ pool = 0
    /\ obs = NoObs

CountWords ==
    /\ ret.op = "text"
    /\ ret' = [op |-> "CountWordFrequency", arg |-> ret.arg, err |-> Nil,
               out |-> CountWordFrequency(ret.arg)]
    /\ UNCHANGED <<rows, seq, pc, tx, loc, pre, trace, deleted, pool, obs>>

WordsNext == CountWords

SpecWords == WordsInit /\ [][WordsNext]_vars

-----------------------------------------------------------------------------
(* Properties *)

\* The last call has returned.
Returned(op) == pc = "idle" /\ ret.op = op

\* The last call met a storage fault.
Faulted == \E i \in DOMAIN trace : trace[i].res = "fault"

\* The positions of the trace at which statement s was issued, with outcome o.
Issued(s) == { i \in DOMAIN trace : trace[i].stmt = s }
IssuedOk(s) == { i \in Issued(s) : trace[i].res = "ok" }

\* Quantity by id.
QuantityOf(db) == { <<r[1], r[4]>> : r \in db }

\* The row a product is stored as.
RowOf(p) == <<p.ID, p.Name, p.Price, p.Quantity, p.Category>>

\* C1 (atomicity of BatchUpdateInventory): a call whose mapping names an id
\* that is not in the store, or one of whose updates failed, returns an error,
\* and once its rollback has succeeded every product has the quantity it had
\* before the call.
C1_BatchAtomicity ==
    (/\ Returned("BatchUpdateInventory")
     /\ \/ \E id \in DOMAIN ret.arg : id \notin RowIds(pre)
        \/ \E i \in Issued("UPDATE") : trace[i].res = "fault")
    => /\ ret.err # Nil
       /\ IssuedOk("ROLLBACK") # {} => QuantityOf(rows) = QuantityOf(pre)

\* A batch that issued an update changing a quantity, then met a missing id
\* and rolled back.
C1_Witness ==
    /\ Returned("BatchUpdateInventory")
    /\ \E id \in DOMAIN ret.arg : id \notin RowIds(pre)
    /\ \E i \in IssuedOk("UPDATE") :
          <<trace[i].id, ret.arg[trace[i].id]>> \notin QuantityOf(pre)
    /\ IssuedOk("ROLLBACK") # {}

\* C2 (commit success): a call whose ids all exist and that meets no storage
\* fault returns nil, and afterwards GetProduct of each listed id returns the
\* row it was before with the new quantity; the empty mapping changes nothing.
C2_BatchCommitSuccess ==
    (/\ Returned("BatchUpdateInventory")
     /\ DOMAIN ret.arg \subseteq RowIds(pre)
     /\ ~Faulted)
    => /\ ret.err = Nil
       /\ \A id \in DOMAIN ret.arg :
             \E r \in pre :
                /\ r[1] = id
                /\ GetProduct(rows, id, FALSE) =
                      [p |-> [ID |-> id, Name |-> r[2], Price |-> r[3],
                              Quantity |-> ret.arg[id], Category |-> r[5]],
                       err |-> Nil]
       /\ DOMAIN ret.arg = {} => rows = pre

\* A committed batch of two ids, both with a quantity they did not have.
C2_Witness ==
    /\ Returned("BatchUpdateInventory")
    /\ ret.err = Nil
    /\ Cardinality(DOMAIN ret.arg) = 2
    /\ \A id \in DOMAIN ret.arg : <<id, ret.arg[id]>> \notin QuantityOf(pre)
    /\ \E id1, id2 \in DOMAIN ret.arg : ret.arg[id1] # ret.arg[id2]

\* C3 (round trip): after a successful CreateProduct the product carries the
\* newly assigned id, its other fields are the caller's, and GetProduct of that
\* id returns exactly that product.
C3_CreateGetRoundTrip ==
    (Returned("CreateProduct") /\ ret.err = Nil)
    => /\ ret.out.ID \in RowIds(rows) \ RowIds(pre)
       /\ ret.out = [ret.arg EXCEPT !.ID = ret.out.ID]
       /\ GetProduct(rows, ret.out.ID, FALSE) = [p |-> ret.out, err |-> Nil]

\* A successful create into a store that already holds a product.
C3_Witness ==
    /\ Returned("CreateProduct")
    /\ ret.err = Nil
    /\ pre # {}
    /\ ret.out.ID # ret.arg.ID

\* The id an UpdateProduct or DeleteProduct call was given.
TargetId == IF ret.op = "UpdateProduct" THEN ret.arg.ID ELSE ret.arg

\* C4 (precondition enforcement): UpdateProduct and DeleteProduct on an id that
\* is not in the store fail, issue no UPDATE or DELETE and leave the table as it
\* was; when no storage fault is met the error wraps the very error GetProduct
\* returns for that id, which is the not-found error.
C4_MissingIdRejected ==
    (/\ Returned("UpdateProduct") \/ Returned("DeleteProduct")
     /\ TargetId \notin RowIds(pre))
    => /\ ret.err # Nil
       /\ Issued("UPDATE") = {} /\ Issued("DELETE") = {}
       /\ rows = pre
       /\ ~Faulted => /\ Tail(ret.err) = GetProduct(rows, TargetId, FALSE).err
                      /\ Is(ret.err, ErrNoRows)

\* An UpdateProduct on a missing id with a non-empty store.
C4_Witness ==
    /\ Returned("UpdateProduct")
    /\ ret.arg.ID \notin RowIds(pre)
    /\ pre # {}
    /\ ~Faulted

\* The stored rows a category selects: all of them for the empty category.
Matching(db, category) ==
    IF category = "" THEN db ELSE { r \in db : r[5] = category }

\* C5 (filtering): without a storage fault ListProducts returns nil and the
\* products of exactly the rows the category selects, each once.
C5_ListFilter ==
    (Returned("ListProducts") /\ ~Faulted)
    => /\ ret.err = Nil
       /\ { ret.out[i] : i \in DOMAIN ret.out } =
             { [ID |-> r[1], Name |-> r[2], Price |-> r[3], Quantity |-> r[4],
                Category |-> r[5]] : r \in Matching(rows, ret.arg) }
       /\ Len(ret.out) = Cardinality(Matching(rows, ret.arg))

\* A listing by category that returns some of the stored products, not all.
C5_Witness ==
    /\ Returned("ListProducts")
    /\ ~Faulted
    /\ ret.arg # ""
    /\ Len(ret.out) > 0
    /\ Len(ret.out) < Cardinality(rows)

\* The ids deleted before the last call started.
DeletedBefore ==
    deleted \ (IF ret.op = "DeleteProduct" /\ ret.err = Nil THEN {ret.arg} ELSE {})

\* The ids the last call names.
NamedIds ==
    IF ret.op \in {"GetProduct", "DeleteProduct"} THEN {ret.arg}
    ELSE IF ret.op = "UpdateProduct" THEN {ret.arg.ID}
    ELSE IF ret.op = "BatchUpdateInventory" THEN DOMAIN ret.arg
    ELSE {}

\* C6 (deletion is permanent): a deleted id is in no later table and is never
\* assigned again, and every later GetProduct, UpdateProduct, DeleteProduct and
\* BatchUpdateInventory naming it fails, with not-found unless the call met a
\* storage fault.
C6_DeletionPermanent ==
    /\ deleted \cap RowIds(rows) = {}
    /\ (Returned("CreateProduct") /\ ret.err = Nil) => ret.out.ID \notin deleted
    /\ (pc = "idle" /\ NamedIds \cap DeletedBefore # {})
       => /\ ret.err # Nil
          /\ ~Faulted => Is(ret.err, ErrNoRows)

\* C7 (unique, store-assigned ids): no two rows share an id; a successful
\* CreateProduct assigns an id no row had, whatever id the caller supplied,
\* adds exactly that one row and leaves the others as they were.
C7_UniqueAssignedIds ==
    /\ \A r1, r2 \in rows : r1[1] = r2[1] => r1 = r2
    /\ (Returned("CreateProduct") /\ ret.err = Nil)
       => /\ ret.out.ID \notin RowIds(pre)
          /\ rows = pre \cup { RowOf([ret.arg EXCEPT !.ID = ret.out.ID]) }
          /\ Cardinality(rows) = Cardinality(pre) + 1

\* A successful create by a caller who supplied the id of a stored product.
C7_Witness ==
    /\ Returned("CreateProduct")
    /\ ret.err = Nil
    /\ ret.arg.ID \in RowIds(pre)

\* C8 (frame of UpdateProduct): on an existing id and without a storage fault
\* the call returns nil, the row of that id holds the caller's Name, Price,
\* Quantity and Category under the same id, and every other row is unchanged.
C8_UpdateFrame ==
    (/\ Returned("UpdateProduct")
     /\ ret.arg.ID \in RowIds(pre)
     /\ ~Faulted)
    => /\ ret.err = Nil
       /\ rows = { r \in pre : r[1] # ret.arg.ID } \cup { RowOf(ret.arg) }
       /\ RowIds(rows) = RowIds(pre)

\* An update that changed a row while another row was stored.
C8_Witness ==
    /\ Returned("UpdateProduct")
    /\ ret.err = Nil
    /\ RowOf(ret.arg) \notin pre
    /\ Cardinality(pre) = 2

\* The query of the last call failed, or its iteration over the rows failed
\* after at least one row had been read.
FailedMidStream ==
    \/ \E i \in Issued("SELECT") : trace[i].res = "fault"
    \/ \E i \in Issued("SCAN") \cup Issued("NEXT") :
          trace[i].res = "fault" /\ trace[i].id >= 2

\* C9 (ListProducts failure): a call whose query failed, or whose iteration
\* over the rows failed mid-stream, returns an error and no products.
C9_ListFailure ==
    (Returned("ListProducts") /\ FailedMidStream)
    => (ret.err # Nil /\ ret.out = <<>>)

\* C10 (transaction release): when the call has returned, Begin having
\* succeeded, exactly one Commit or Rollback was invoked; when Begin failed,
\* none was and the begin error is returned.  No call in progress has invoked
\* either.
C10_TxReleasedOnce ==
    /\ Returned("BatchUpdateInventory")
       => IF IssuedOk("BEGIN") # {}
            THEN Cardinality(Issued("COMMIT") \cup Issued("ROLLBACK")) = 1
            ELSE /\ Issued("COMMIT") \cup Issued("ROLLBACK") = {}
                 /\ ret.err = Errorf("begin tx", ErrStorage("begin"))
    /\ pc # "idle" => Issued("COMMIT") \cup Issued("ROLLBACK") = {}

\* A call that failed its existence check after an update and rolled back.
C10_Witness ==
    /\ Returned("BatchUpdateInventory")
    /\ IssuedOk("UPDATE") # {}
    /\ \E i \in Issued("SELECT") : trace[i].res = "norows"
    /\ Issued("ROLLBACK") # {}

\* The error the storage engine gave for the statement at position i of the
\* trace, and the stage under which BatchUpdateInventory reports it.
CauseOf(i) ==
    IF trace[i].res = "norows" THEN ErrNoRows
    ELSE IF trace[i].stmt = "BEGIN" THEN ErrStorage("begin")
    ELSE IF trace[i].stmt = "SELECT" THEN ErrStorage("select")
    ELSE IF trace[i].stmt = "UPDATE" THEN ErrStorage("update")
    ELSE IF trace[i].stmt = "ROLLBACK" THEN ErrStorage("rollback")
    ELSE ErrStorage("commit")

StageOf(i) ==
    IF trace[i].stmt = "BEGIN" THEN <<"begin tx">>
    ELSE IF trace[i].stmt = "SELECT" THEN <<"get products">>
    ELSE IF trace[i].stmt = "UPDATE" THEN <<"update products">>
    ELSE IF trace[i].stmt = "ROLLBACK" THEN <<"rollback">>
    ELSE <<"commit">>

\* C11 (error propagation in BatchUpdateInventory): every storage fault met
\* during the call (at begin, get, update, rollback or commit) is in the chain
\* of the returned error, under its stage; when the rollback fails the error
\* also carries the per-pair failure that led to it.
C11_BatchErrorsPropagated ==
    Returned("BatchUpdateInventory")
    => /\ \A i \in DOMAIN trace :
             trace[i].res = "fault"
             => Is(ret.err, CauseOf(i)) /\ Is(ret.err, StageOf(i))
       /\ (\E j \in Issued("ROLLBACK") : trace[j].res = "fault")
          => \A i \in DOMAIN trace : trace[i].res # "ok" => Is(ret.err, CauseOf(i))

\* The words of a text: its maximal runs of letters and digits, lowercased.
RECURSIVE WordsOf(_, _)
WordsOf(text, cur) ==
    IF text = <<>> THEN (IF cur = "" THEN <<>> ELSE <<cur>>)
    ELSE IF IsLetter(Head(text)) \/ IsDigit(Head(text))
      THEN WordsOf(Tail(text), cur \o ToLower(Head(text)))
    ELSE (IF cur = "" THEN <<>> ELSE <<cur>>) \o WordsOf(Tail(text), "")

\* C12 (CountWordFrequency): the map's keys are exactly the words of the text,
\* every character that is neither letter nor digit ending a word, and each
\* word is mapped to the number of times it occurs.
C12_WordFrequency ==
    ret.op = "CountWordFrequency"
    => LET ws == WordsOf(ret.arg, "")
       IN  ret.out = [w \in { ws[i] : i \in DOMAIN ws } |->
                         Cardinality({ i \in DOMAIN ws : ws[i] = w })]

\* The table with every quantity of the mapping written, in no order.
ApplyAll(db, updates) ==
    { IF r[1] \in DOMAIN updates
        THEN <<r[1], r[2], r[3], updates[r[1]], r[5]>> ELSE r : r \in db }

\* A statement of the loop that failed: a check that found no row or met a
\* fault, or an update that met a fault.
FailedPair(i) == trace[i].stmt \in {"SELECT", "UPDATE"} /\ trace[i].res # "ok"

\* C13 (batch protocol ordering): an update is issued right after the
\* successful check of the same id; after the first failing check or update
\* the only further statement is the rollback; Commit is attempted only when
\* every id of the mapping was checked and updated; the call ends committed,
\* rolled back, commit-failed, rollback-failed or begin-failed, and the table
\* then holds all of the mapping's updates (committed) or none of them.
C13_BatchProtocol ==
    ret.op = "BatchUpdateInventory"
    => LET n == Len(trace)
       IN  /\ \A i \in Issued("UPDATE") :
                i > 1 /\ trace[i - 1] = Stmt("SELECT", trace[i].id, "ok")
           /\ \A i \in DOMAIN trace :
                FailedPair(i)
                => \/ i = n /\ pc = "rollback"
                   \/ i = n - 1 /\ trace[n].stmt = "ROLLBACK" /\ pc = "idle"
           /\ \A i \in Issued("COMMIT") :
                /\ i = n
                /\ { trace[j].id : j \in IssuedOk("UPDATE") } = DOMAIN ret.arg
                /\ \A j \in 1..(i - 1) : trace[j].res = "ok"
           /\ pc = "idle"
              => /\ trace[n].stmt \in {"COMMIT", "ROLLBACK"}
                    \/ trace[n] = Stmt("BEGIN", 0, "fault")
                 /\ rows = IF trace[n] = Stmt("COMMIT", 0, "ok")
                             THEN ApplyAll(pre, ret.arg) ELSE pre

\* A call of two pairs whose first update changed a quantity and whose second
\* update failed, rolled back.
C13_Witness ==
    /\ Returned("BatchUpdateInventory")
    /\ Cardinality(DOMAIN ret.arg) = 2
    /\ \E i \in IssuedOk("UPDATE") :
          <<trace[i].id, ret.arg[trace[i].id]>> \notin QuantityOf(pre)
    /\ \E i \in Issued("UPDATE") : trace[i].res = "fault"
    /\ IssuedOk("ROLLBACK") # {}

\* C14 (order independence): without storage faults the call succeeds exactly
\* when every id of the mapping is in the store, and the table it leaves is
\* determined by the table before and the mapping alone: all updates applied on
\* success, the table as it was on failure, in whatever order the pairs came.
C14_OrderIndependent ==
    (Returned("BatchUpdateInventory") /\ ~Faulted)
    => /\ ret.err = Nil <=> DOMAIN ret.arg \subseteq RowIds(pre)
       /\ rows = IF DOMAIN ret.arg \subseteq RowIds(pre)
                   THEN ApplyAll(pre, ret.arg) ELSE pre

\* A committed call that ranged over id 2 before id 1, with different new
\* quantities.
C14_Witness ==
    /\ Returned("BatchUpdateInventory")
    /\ ~Faulted
    /\ ret.err = Nil
    /\ DOMAIN ret.arg = {1, 2}
    /\ ret.arg[1] # ret.arg[2]
    /\ \E i, j \in Issued("SELECT") : i < j /\ trace[i].id = 2 /\ trace[j].id = 1

\* C19 (frame of BatchUpdateInventory): when the call has returned, with or
\* without error, the stored ids are those before the call, every row has the
\* Name, Price and Category it had, and every row whose id is not a key of the
\* mapping has the quantity it had.
C19_BatchFrame ==
    Returned("BatchUpdateInventory")
    => /\ RowIds(rows) = RowIds(pre)
       /\ Cardinality(rows) = Cardinality(pre)
       /\ \A r \in rows :
             \E q \in pre :
                /\ q[1] = r[1] /\ q[2] = r[2] /\ q[3] = r[3] /\ q[5] = r[5]
                /\ r[1] \notin DOMAIN ret.arg => q[4] = r[4]

\* A committed call that changed the quantity of one of two stored products.
C19_Witness ==
    /\ Returned("BatchUpdateInventory")
    /\ ret.err = Nil
    /\ Cardinality(DOMAIN ret.arg) = 1
    /\ Cardinality(pre) = 2
    /\ rows # pre

\* The (id, quantity) pairs another caller's last read returned.
Observed ==
    IF obs.op = "GetProduct" /\ obs.err = Nil
      THEN { <<obs.out.ID, obs.out.Quantity>> }
    ELSE IF obs.op = "ListProducts"
      THEN { <<obs.out[i].ID, obs.out[i].Quantity>> : i \in DOMAIN obs.out }
    ELSE {}

\* C15 (isolation of a batch as a unit): a read another caller makes while
\* BatchUpdateInventory is in progress returns only quantities the store held
\* before the call, none of the call's updates; once the call has committed,
\* every stored product the mapping lists has its new quantity.
C15_BatchIsolated ==
    ret.op = "BatchUpdateInventory"
    => /\ pc # "idle" => Observed \subseteq QuantityOf(pre)
       /\ (pc = "idle" /\ IssuedOk("COMMIT") # {})
          => \A r \in rows : r[1] \in DOMAIN ret.arg => r[4] = ret.arg[r[1]]

\* Another caller listed the products while the transaction had written the
\* first of two updates, both changing a quantity.
C15_Witness ==
    /\ ret.op = "BatchUpdateInventory"
    /\ pc = "range"
    /\ Cardinality(DOMAIN ret.arg) = 2
    /\ Cardinality(loc.todo) = 1
    /\ \A id \in DOMAIN ret.arg : <<id, ret.arg[id]>> \notin QuantityOf(rows)
    /\ tx.dirty
    /\ QuantityOf(tx.view) # QuantityOf(rows)
    /\ obs.op = "ListProducts"
    /\ Len(obs.out) = 2

\* C16 (consistent view of the existence check): when BatchUpdateInventory
\* returns nil, every id of the mapping is in the store with its new quantity,
\* whatever DeleteProduct calls of other callers ran in between.
C16_BatchSuccessMeansStored ==
    (Returned("BatchUpdateInventory") /\ ret.err = Nil)
    => \A id \in DOMAIN ret.arg :
          \E r \in rows : r[1] = id /\ r[4] = ret.arg[id]

\* C17 (existence guard of UpdateProduct under interleaving): when
\* UpdateProduct returns nil its UPDATE found the row, so the row with the
\* product's id now holds the product's values, whatever DeleteProduct of
\* another caller ran between its check and its UPDATE.
C17_UpdateSuccessMeansStored ==
    (Returned("UpdateProduct") /\ ret.err = Nil) => RowOf(ret.arg) \in rows

\* C18 (termination of BatchUpdateInventory): whatever the limit of open
\* connections, a call in progress can take its next step, so that under
\* fairness it returns.
C18_BatchTerminates == pc \in {"range", "exec", "rollback"} => ENABLED BatchStep

====
